---- MODULE Spec2Model ----
(***************************************************************************)
(* Model of app.py: the OCR order extractor.  A text is a sequence of      *)
(* one-character strings, so that the regular expressions, lower(),        *)
(* strip(), replace() and split() are computed character by character.     *)
(* A Python int is kept as its canonical decimal digits (no leading        *)
(* zeros), which is what int() of a digit string denotes at any length.    *)
(***************************************************************************)
EXTENDS Integers, Sequences, FiniteSets, TLC

VARIABLES pc, text, recognized, row, img, g

vars == <<pc, text, recognized, row, img, g>>

(***************************************************************************)
(* Characters and the character classes of Python's re on str patterns.    *)
(***************************************************************************)
UpperSeq == <<"A","B","C","D","E","F","G","H","I","J","K","L","M","N","O","P","Q","R","S","T","U","V","W","X","Y","Z","Á","É","Í","Ó","Ú","Ñ","Ü">>

LowerSeq == <<"a","b","c","d","e","f","g","h","i","j","k","l","m","n","o","p","q","r","s","t","u","v","w","x","y","z","á","é","í","ó","ú","ñ","ü">>

Range(f) == {f[i] : i \in DOMAIN f}

DigitChars == {"0","1","2","3","4","5","6","7","8","9"}

\* \w : letters, digits and the underscore
WordChars == Range(UpperSeq) \cup Range(LowerSeq) \cup DigitChars \cup {"_"}

\* \s
SpaceChars == {" ", "\n", "\t", "\r", "\f"}

\* the lower case of each capital
LowerOf ==
  [c \in Range(UpperSeq) |-> LowerSeq[CHOOSE i \in DOMAIN UpperSeq : UpperSeq[i] = c]]

\* str.lower() of one character
LowerChar(c) == IF c \in DOMAIN LowerOf THEN LowerOf[c] ELSE c

\* str.lower(), as a tuple
lower(s) == SubSeq([i \in 1..Len(s) |-> LowerChar(s[i])], 1, Len(s))

\* k occurs in s starting at index i
OccursAt(k, s, i) ==
  /\ i >= 1
  /\ i + Len(k) - 1 <= Len(s)
  /\ \A j \in 1..Len(k) : s[i + j - 1] = k[j]

\* Python's  k in s
Contains(k, s) == \E i \in 1..(Len(s) - Len(k) + 1) : OccursAt(k, s, i)

\* the pattern word k (lower case) matches at i under re.IGNORECASE
OccursAtIgnoreCase(k, s, i) ==
  /\ i >= 1
  /\ i + Len(k) - 1 <= Len(s)
  /\ \A j \in 1..Len(k) : LowerChar(s[i + j - 1]) = k[j]

Min(S) == CHOOSE x \in S : \A y \in S : x <= y

\* first index >= i whose character is outside class C (Len(s)+1 if none):
\* where a greedy C* started at i stops
SkipWhile(s, i, C) ==
  Min({j \in i..Len(s) : s[j] \notin C} \cup {Len(s) + 1})

\* \b at the gap before index i (i in 1..Len(s)+1)
IsWordAt(s, i) == i >= 1 /\ i <= Len(s) /\ s[i] \in WordChars

WordBoundary(s, i) == IsWordAt(s, i - 1) # IsWordAt(s, i)

\* str.strip()
strip(s) ==
  LET keep == {i \in 1..Len(s) : s[i] \notin SpaceChars}
  IN IF keep = {} THEN <<>>
     ELSE SubSeq(s, Min(keep), CHOOSE x \in keep : \A y \in keep : y <= x)

\* str.replace("  ", " "): non-overlapping, left to right
RECURSIVE ReplaceFrom(_, _)
ReplaceFrom(s, i) ==
  IF i > Len(s) THEN <<>>
  ELSE IF i < Len(s) /\ s[i] = " " /\ s[i + 1] = " "
         THEN <<" ">> \o ReplaceFrom(s, i + 2)
         ELSE <<s[i]>> \o ReplaceFrom(s, i + 1)

replace_double_space(s) == ReplaceFrom(s, 1)

\* str.split(): the maximal runs of non-whitespace characters
RECURSIVE SplitFrom(_, _)
SplitFrom(s, i) ==
  IF i > Len(s) THEN <<>>
  ELSE IF s[i] \in SpaceChars THEN SplitFrom(s, i + 1)
  ELSE LET j == SkipWhile(s, i, {c \in Range(s) : c \notin SpaceChars})
       IN <<SubSeq(s, i, j - 1)>> \o SplitFrom(s, j)

split(s) == SplitFrom(s, 1)

\* int() of a non-empty digit string, as canonical decimal digits
int(ds) ==
  LET nz == {i \in 1..Len(ds) : ds[i] # "0"}
  IN IF nz = {} THEN <<"0">> ELSE SubSeq(ds, Min(nz), Len(ds))

(***************************************************************************)
(* Constants of the program.                                               *)
(***************************************************************************)
kw_lechelak == <<"l","e","c","h","e","l","a","k">>
kw_cabra == <<"c","a","b","r","a">>
kw_340 == <<"3","4","0">>
kw_crecelac == <<"c","r","e","c","e","l","a","c">>
kw_0_12 == <<"0","-","1","2">>
kw_800 == <<"8","0","0">>
kw_400 == <<"4","0","0">>
kw_firstep == <<"f","i","r","s","t","e","p">>
kw_1_3 == <<"1","-","3">>
kw_360 == <<"3","6","0">>
kw_1_5 == <<"1",".","5">>

SKU1 == <<"7","5","0","1","4","6","8","1","4","4","5","0","1">>
SKU2 == <<"7","5","0","1","4","6","8","1","4","0","4","4","2">>
SKU3 == <<"7","5","0","1","4","6","8","1","4","5","5","0","8">>
SKU4 == <<"7","5","0","1","4","6","8","1","4","8","1","0","3">>
SKU5 == <<"7","5","0","1","4","6","8","1","4","8","3","0","1">>
SKU6 == <<"7","5","0","1","4","6","8","1","4","1","0","4","3">>
SKU7 == <<"7","5","0","1","4","6","8","1","4","0","9","4","7">>

T1 == <<"L","e","c","h","e","L","a","k"," ","-"," ","L","e","c","h","e"," ","d","e"," ","C","a","b","r","a"," ","e","n"," ","P","o","l","v","o"," ","3","4","0","g","r">>
T2 == <<"C","r","e","c","e","l","a","c"," ","0","-","1","2"," ","M"," ","8","0","0"," ","G","R">>
T3 == <<"C","r","e","c","e","l","a","c"," ","0","-","1","2"," ","M"," ","4","0","0"," ","G","R">>
T4 == <<"C","r","e","c","e","l","a","c"," ","F","I","R","S","T","E","P"," ","1","-","3"," ","A","Ñ","O","S"," ","3","6","0"," ","G","R">>
T5 == <<"C","r","e","c","e","l","a","c"," ","F","I","R","S","T","E","P"," ","1","-","3"," ","A","Ñ","O","S"," ","8","0","0"," ","G","R">>
T6 == <<"C","r","e","c","e","l","a","c"," ","0","-","1","2"," ","M"," ","1",".","5"," ","K","G">>
T7 == <<"C","r","e","c","e","l","a","c"," ","F","I","R","S","T","E","P"," ","1","-","3"," ","A","Ñ","O","S"," ","1",".","5"," ","K","G">>

\* (keywords, SKU, canonical title), in the order of the list
CATALOGO ==
  << [keys |-> <<kw_lechelak, kw_cabra, kw_340>>, sku |-> SKU1, canonical |-> T1],
     [keys |-> <<kw_crecelac, kw_0_12, kw_800>>, sku |-> SKU2, canonical |-> T2],
     [keys |-> <<kw_crecelac, kw_0_12, kw_400>>, sku |-> SKU3, canonical |-> T3],
     [keys |-> <<kw_crecelac, kw_firstep, kw_1_3, kw_360>>, sku |-> SKU4, canonical |-> T4],
     [keys |-> <<kw_crecelac, kw_firstep, kw_1_3, kw_800>>, sku |-> SKU5, canonical |-> T5],
     [keys |-> <<kw_crecelac, kw_0_12, kw_1_5>>, sku |-> SKU6, canonical |-> T6],
     [keys |-> <<kw_crecelac, kw_firstep, kw_1_5>>, sku |-> SKU7, canonical |-> T7] >>

MARKETPLACE_CONST == <<"M","e","r","c","a","d","o","l","i","b","r","e">>

\* "No detectado"
NoDetectado == <<"N","o"," ","d","e","t","e","c","t","a","d","o">>

\* "Título no detectado"
TituloNoDetectado == <<"T","í","t","u","l","o"," ","n","o"," ","d","e","t","e","c","t","a","d","o">>

\* "Mercado Envíos"
MercadoEnvios == <<"M","e","r","c","a","d","o"," ","E","n","v","í","o","s">>

\* the default of Unidades
DefaultUnidades == <<"1">>

\* ("crecelac", "lechelak", "fórmula", "formula", "cabra")
brand_words ==
  << kw_crecelac, kw_lechelak, <<"f","ó","r","m","u","l","a">>,
     <<"f","o","r","m","u","l","a">>, kw_cabra >>

UpscaleTarget == 1600

EnvioTail == 60

TitleTail == 15

CanonicalWordsNeeded == 3

(***************************************************************************)
(* EAN13_RE = \b(7\d{12})\b                                                *)
(***************************************************************************)
\* variant: the closing \b left out
ean_end_boundary_none(s, j) == TRUE

\* the \b that closes the pattern, at the gap before index j
ean_end_boundary(s, j) == WordBoundary(s, j)

\* the pattern matches with its first digit at index i
EAN13_RE_match_at(s, i) ==
  /\ WordBoundary(s, i)
  /\ i + 12 <= Len(s)
  /\ s[i] = "7"
  /\ \A k \in 1..12 : s[i + k] \in DigitChars
  /\ ean_end_boundary(s, i + 13)

\* variant: the rightmost match instead of the leftmost
EAN13_RE_search_last(s) ==
  LET hits == {i \in 1..Len(s) : EAN13_RE_match_at(s, i)}
      last == CHOOSE x \in hits : \A y \in hits : y <= x
  IN IF hits = {} THEN <<>> ELSE SubSeq(s, last, last + 12)

\* EAN13_RE.search(s): group(1) of the leftmost match, <<>> for None
EAN13_RE_search(s) ==
  LET hits == {i \in 1..Len(s) : EAN13_RE_match_at(s, i)}
  IN IF hits = {} THEN <<>> ELSE SubSeq(s, Min(hits), Min(hits) + 12)

(***************************************************************************)
(* UNITS_RE = (\d+)\s*(?:unid(?:ad|ades)?)\b   with re.IGNORECASE          *)
(***************************************************************************)
\* unid(?:ad|ades)?\b at index j
unit_word_at(s, j) ==
  /\ OccursAtIgnoreCase(<<"u","n","i","d">>, s, j)
  /\ \/ OccursAtIgnoreCase(<<"a","d">>, s, j + 4) /\ WordBoundary(s, j + 6)
     \/ OccursAtIgnoreCase(<<"a","d","e","s">>, s, j + 4) /\ WordBoundary(s, j + 8)
     \/ WordBoundary(s, j + 4)

\* the pattern matches starting at index i: the greedy \d+ and \s* can only
\* succeed on their maximal runs, since the next character must be "u"
UNITS_RE_match_at(s, i) ==
  /\ s[i] \in DigitChars
  /\ unit_word_at(s, SkipWhile(s, SkipWhile(s, i, DigitChars), SpaceChars))

\* UNITS_RE.search(s): group(1) of the leftmost match, <<>> for None
UNITS_RE_search(s) ==
  LET hits == {i \in 1..Len(s) : UNITS_RE_match_at(s, i)}
  IN IF hits = {} THEN <<>>
     ELSE SubSeq(s, Min(hits), SkipWhile(s, Min(hits), DigitChars) - 1)

(***************************************************************************)
(* ENVIO_LINE_RE = (env[ií]o[^\n]{0,60})   with re.IGNORECASE              *)
(***************************************************************************)
ENVIO_LINE_RE_match_at(s, i) ==
  /\ OccursAtIgnoreCase(<<"e","n","v">>, s, i)
  /\ i + 4 <= Len(s)
  /\ LowerChar(s[i + 3]) \in {"i", "í"}
  /\ LowerChar(s[i + 4]) = "o"

\* variant: .{0,60} across line breaks
envio_tail_end_any(s, j) ==
  IF Len(s) + 1 - j > EnvioTail THEN j + EnvioTail - 1 ELSE Len(s)

\* index of the last character taken by the greedy [^\n]{0,60} that starts
\* at index j
envio_tail_end(s, j) ==
  LET stop == SkipWhile(s, j, Range(s) \ {"\n"})
  IN IF stop - j > EnvioTail THEN j + EnvioTail - 1 ELSE stop - 1

\* ENVIO_LINE_RE.search(s): group(1) of the leftmost match, <<>> for None
ENVIO_LINE_RE_search(s) ==
  LET hits == {i \in 1..Len(s) : ENVIO_LINE_RE_match_at(s, i)}
  IN IF hits = {} THEN <<>>
     ELSE SubSeq(s, Min(hits), envio_tail_end(s, Min(hits) + 5))

(***************************************************************************)
(* score_match, guess_from_catalog                                         *)
(***************************************************************************)
score_match(title_lower, keywords) ==
  Cardinality({i \in DOMAIN keywords : Contains(keywords[i], title_lower)})

\* variant: sc >= best_score
better_or_equal(sc, best_score) == sc >= best_score

\* if sc > best_score
better(sc, best_score) == sc > best_score

\* the loop over CATALOGO from entry i on
RECURSIVE guess_loop(_, _, _, _)
guess_loop(tl, i, best, best_score) ==
  IF i > Len(CATALOGO) THEN best
  ELSE LET sc == score_match(tl, CATALOGO[i].keys)
       IN IF better(sc, best_score)
            THEN guess_loop(tl, i + 1, <<CATALOGO[i].sku, CATALOGO[i].canonical>>, sc)
            ELSE guess_loop(tl, i + 1, best, best_score)

\* returns <<sku, canonical>>, <<"", "">> when nothing scores
guess_from_catalog(title) == guess_loop(lower(title), 1, << <<>>, <<>> >>, 0)

(***************************************************************************)
(* find_title                                                              *)
(***************************************************************************)
\* [A-ZÁÉÍÓÚÑ]
TitleFirstChars == {UpperSeq[i] : i \in 1..32}

\* [\wÁÉÍÓÚñáéíóú0-9\s\-\(\)\/]
TitleChars == WordChars \cup SpaceChars \cup {"-", "(", ")", "/"}

\* re.findall of the title pattern from index i on: non-overlapping matches,
\* each one a capital followed by the whole run of class characters, when
\* that run has 15 characters or more
RECURSIVE findall_title(_, _)
findall_title(s, i) ==
  IF i > Len(s) THEN <<>>
  ELSE IF s[i] \in TitleFirstChars
         THEN LET j == SkipWhile(s, i + 1, TitleChars)
              IN IF j - (i + 1) >= TitleTail
                   THEN <<SubSeq(s, i, j - 1)>> \o findall_title(s, j)
                   ELSE findall_title(s, i + 1)
         ELSE findall_title(s, i + 1)

has_brand(c) ==
  \E b \in DOMAIN brand_words : Contains(brand_words[b], lower(c))

\* for c in cand: if any(...) and len(c) > len(best): best = c.strip()
RECURSIVE brand_loop(_, _, _)
brand_loop(cand, k, best) ==
  IF k > Len(cand) THEN best
  ELSE IF has_brand(cand[k]) /\ Len(cand[k]) > Len(best)
         THEN brand_loop(cand, k + 1, strip(cand[k]))
         ELSE brand_loop(cand, k + 1, best)

\* max(cand, key=len): the first of the longest ones
longest(cand) ==
  cand[Min({k \in DOMAIN cand : \A j \in DOMAIN cand : Len(cand[j]) <= Len(cand[k])})]

\* variant: return best
title_or_empty(best) == best

\* return best or "Título no detectado"
title_or_marker(best) == IF best # <<>> THEN best ELSE TituloNoDetectado

find_title(s) ==
  LET cand == findall_title(s, 1)
      b1 == brand_loop(cand, 1, <<>>)
      b2 == IF b1 = <<>> /\ cand # <<>> THEN strip(longest(cand)) ELSE b1
  IN title_or_marker(b2)

(***************************************************************************)
(* extract_fields                                                          *)
(***************************************************************************)
\* int(m_u.group(1)) if m_u else 1
units_or_default(m_u) == IF m_u # <<>> THEN int(m_u) ELSE DefaultUnidades

\* m_env.group(1).strip() if m_env else "Mercado Envíos"
envio_or_default(m_env) == IF m_env # <<>> THEN strip(m_env) ELSE MercadoEnvios

\* variant: if title
fallback_always(sku, title) == title # <<>>

\* if not sku and title
fallback_needed(sku, title) == sku = <<>> /\ title # <<>>

\* variant: the canonical title always replaces the detected one
canonical_replaces_always(title, canonical) == TRUE

\* score_match(title.lower(), canonical.lower().split()) < 3
canonical_replaces(title, canonical) ==
  score_match(lower(title), split(lower(canonical))) < CanonicalWordsNeeded

\* variant: sku
sku_or_empty(sku) == sku

\* sku or "No detectado"
sku_or_marker(sku) == IF sku # <<>> THEN sku ELSE NoDetectado

\* the body of extract_fields after the four searches: the catalog fallback
\* and the returned dict, as its items in insertion order
fields_of(sku0, title0, unidades, envio, guess) ==
  LET sku == IF guess[1] # <<>> THEN guess[1] ELSE sku0
      title == IF guess[1] # <<>> /\ canonical_replaces(title0, guess[2])
                 THEN guess[2] ELSE title0
  IN << <<"SKU", sku_or_marker(sku)>>,
        <<"Título de la publicación", title>>,
        <<"Unidades", unidades>>,
        <<"Marketplace", MARKETPLACE_CONST>>,
        <<"Envío", envio>> >>

\* guess_from_catalog(title) under its guard; <<"", "">> when it is not run
guess_if_needed(sku0, title0) ==
  IF fallback_needed(sku0, title0)
    THEN guess_from_catalog(title0) ELSE << <<>>, <<>> >>

\* each local is computed once and bound, as the assignments do
extract_fields(full_text) ==
  CHOOSE r \in UNION {
      { fields_of(sku0, title0, unidades, envio, guess) :
          guess \in {guess_if_needed(sku0, title0)} } :
        sku0 \in {EAN13_RE_search(full_text)},
        title0 \in {find_title(full_text)},
        unidades \in {units_or_default(UNITS_RE_search(full_text))},
        envio \in {envio_or_default(ENVIO_LINE_RE_search(replace_double_space(full_text)))}
    } : TRUE

(***************************************************************************)
(* preprocess: only the size of the image matters here; grayscale,         *)
(* autocontrast and the median filter keep it.                             *)
(***************************************************************************)
\* the pairs <<x, m>>, x <= m < 1600, where the double x * (1600 / m) falls
\* just below the integer x * 1600 / m, so that int() yields one less
FloatShortfall ==
  {
    <<97,97>>, <<161,161>>, <<167,167>>, <<193,193>>, <<97,194>>,
    <<194,194>>, <<117,195>>, <<195,195>>, <<199,199>>, <<145,232>>,
    <<155,248>>, <<289,289>>, <<183,305>>, <<305,305>>, <<161,322>>,
    <<322,322>>, <<167,334>>, <<334,334>>, <<201,335>>, <<335,335>>,
    <<337,337>>, <<369,369>>, <<371,371>>, <<77,385>>, <<154,385>>,
    <<231,385>>, <<308,385>>, <<385,385>>, <<193,386>>, <<386,386>>,
    <<387,387>>, <<97,388>>, <<194,388>>, <<291,388>>, <<388,388>>,
    <<117,390>>, <<195,390>>, <<234,390>>, <<351,390>>, <<390,390>>,
    <<199,398>>, <<398,398>>, <<145,464>>, <<290,464>>, <<155,496>>,
    <<310,496>>, <<539,539>>, <<355,568>>, <<289,578>>, <<578,578>>,
    <<607,607>>, <<183,610>>, <<305,610>>, <<366,610>>, <<610,610>>,
    <<161,644>>, <<322,644>>, <<644,644>>, <<653,653>>, <<167,668>>,
    <<334,668>>, <<668,668>>, <<201,670>>, <<335,670>>, <<402,670>>,
    <<603,670>>, <<670,670>>, <<337,674>>, <<674,674>>, <<411,685>>,
    <<685,685>>, <<687,687>>, <<693,693>>, <<435,696>>, <<369,738>>,
    <<738,738>>, <<371,742>>, <<742,742>>, <<465,744>>, <<77,770>>,
    <<154,770>>, <<231,770>>, <<308,770>>, <<385,770>>, <<462,770>>,
    <<616,770>>, <<693,770>>, <<770,770>>, <<193,772>>, <<386,772>>,
    <<772,772>>, <<387,774>>, <<774,774>>, <<97,776>>, <<194,776>>,
    <<291,776>>, <<388,776>>, <<485,776>>, <<582,776>>, <<679,776>>,
    <<776,776>>, <<117,780>>, <<195,780>>, <<234,780>>, <<351,780>>,
    <<390,780>>, <<429,780>>, <<468,780>>, <<663,780>>, <<702,780>>,
    <<741,780>>, <<780,780>>, <<791,791>>, <<199,796>>, <<398,796>>,
    <<796,796>>, <<537,895>>, <<145,928>>, <<290,928>>, <<551,928>>,
    <<580,928>>, <<579,965>>, <<155,992>>, <<310,992>>, <<589,992>>,
    <<620,992>>, <<633,1055>>, <<539,1078>>, <<1078,1078>>, <<1089,1089>>,
    <<355,1136>>, <<639,1136>>, <<710,1136>>, <<289,1156>>, <<578,1156>>,
    <<1156,1156>>, <<1199,1199>>, <<607,1214>>, <<1214,1214>>, <<183,1220>>,
    <<305,1220>>, <<366,1220>>, <<610,1220>>, <<671,1220>>, <<732,1220>>,
    <<1159,1220>>, <<1220,1220>>, <<49,1225>>, <<98,1225>>, <<147,1225>>,
    <<196,1225>>, <<294,1225>>, <<343,1225>>, <<392,1225>>, <<588,1225>>,
    <<637,1225>>, <<686,1225>>, <<735,1225>>, <<784,1225>>, <<1127,1225>>,
    <<1176,1225>>, <<1225,1225>>, <<1233,1233>>, <<1251,1251>>, <<161,1288>>,
    <<322,1288>>, <<644,1288>>, <<805,1288>>, <<1288,1288>>, <<1289,1289>>,
    <<783,1305>>, <<1305,1305>>, <<653,1306>>, <<1306,1306>>, <<1307,1307>>,
    <<1331,1331>>, <<167,1336>>, <<334,1336>>, <<668,1336>>, <<835,1336>>,
    <<1169,1336>>, <<1336,1336>>, <<201,1340>>, <<335,1340>>, <<402,1340>>,
    <<603,1340>>, <<670,1340>>, <<737,1340>>, <<804,1340>>, <<1139,1340>>,
    <<1206,1340>>, <<1273,1340>>, <<1340,1340>>, <<337,1348>>, <<674,1348>>,
    <<1348,1348>>, <<1367,1367>>, <<1369,1369>>, <<411,1370>>, <<685,1370>>,
    <<822,1370>>, <<1233,1370>>, <<1370,1370>>, <<687,1374>>, <<1374,1374>>,
    <<693,1386>>, <<1386,1386>>, <<435,1392>>, <<870,1392>>, <<1429,1429>>,
    <<895,1432>>, <<1443,1443>>, <<1459,1459>>, <<369,1476>>, <<738,1476>>,
    <<1476,1476>>, <<371,1484>>, <<742,1484>>, <<1484,1484>>, <<465,1488>>,
    <<930,1488>>, <<303,1515>>, <<606,1515>>, <<909,1515>>, <<1212,1515>>,
    <<1515,1515>>, <<1537,1537>>, <<77,1540>>, <<154,1540>>, <<231,1540>>,
    <<308,1540>>, <<385,1540>>, <<462,1540>>, <<616,1540>>, <<693,1540>>,
    <<770,1540>>, <<847,1540>>, <<924,1540>>, <<1232,1540>>, <<1309,1540>>,
    <<1386,1540>>, <<1463,1540>>, <<1540,1540>>, <<193,1544>>, <<386,1544>>,
    <<772,1544>>, <<965,1544>>, <<1351,1544>>, <<1544,1544>>, <<927,1545>>,
    <<1545,1545>>, <<387,1548>>, <<774,1548>>, <<1548,1548>>, <<97,1552>>,
    <<194,1552>>, <<291,1552>>, <<388,1552>>, <<485,1552>>, <<582,1552>>,
    <<679,1552>>, <<776,1552>>, <<873,1552>>, <<970,1552>>, <<1067,1552>>,
    <<1164,1552>>, <<1261,1552>>, <<1358,1552>>, <<1455,1552>>,
    <<1552,1552>>, <<933,1555>>, <<117,1560>>, <<195,1560>>, <<234,1560>>,
    <<351,1560>>, <<390,1560>>, <<429,1560>>, <<468,1560>>, <<663,1560>>,
    <<702,1560>>, <<741,1560>>, <<780,1560>>, <<819,1560>>, <<858,1560>>,
    <<897,1560>>, <<936,1560>>, <<975,1560>>, <<1287,1560>>, <<1326,1560>>,
    <<1365,1560>>, <<1404,1560>>, <<1443,1560>>, <<1482,1560>>,
    <<1521,1560>>, <<1560,1560>>, <<1567,1567>>, <<985,1576>>, <<1577,1577>>,
    <<791,1582>>, <<1582,1582>>, <<1583,1583>>, <<1589,1589>>, <<199,1592>>,
    <<398,1592>>, <<796,1592>>, <<995,1592>>, <<1393,1592>>, <<1592,1592>>,
    <<319,1595>>, <<638,1595>>, <<957,1595>>, <<1276,1595>>, <<1595,1595>>
  }

Max(a, b) == IF a >= b THEN a ELSE b

\* int(x * scale) with scale = 1600 / m in double arithmetic
scaled(x, m) ==
  ((x * UpscaleTarget) \div m) - (IF <<x, m>> \in FloatShortfall THEN 1 ELSE 0)

\* variant: resize whatever the size
needs_upscale_always(w, h) == TRUE

\* if max(w, h) < 1600
needs_upscale(w, h) == Max(w, h) < UpscaleTarget

\* the size of the returned image, for an image of size <<w, h>>
preprocess(size) ==
  LET w == size[1]
      h == size[2]
  IN IF needs_upscale(w, h)
       THEN <<scaled(w, Max(w, h)), scaled(h, Max(w, h))>>
       ELSE size

(***************************************************************************)
(* Bounds and inputs.                                                      *)
(***************************************************************************)
\* an OCR text is made of at most MaxPieces pieces
MaxPieces == 3

\* image sides: 1..SmallSide, the sides in MidSides, and the sides within
\* NearTarget of the upscale target
SmallSide == 6

NearTarget == 5

MidSides == {97, 117, 194, 195, 800, 1200}

P_space == <<" ">>
P_newline == <<"\n">>
P_zero == <<"0">>
P_three == <<"3">>
P_unid == <<"U","n","i","d">>
P_ades == <<"a","d","e","s">>
P_unknown == <<"7","9","9","9","9","9","9","9","9","9","9","9","9">>
P_Envio == <<"E","n","v","í","o">>
P_ENVIO == <<"E","N","V","I","O">>
P_long == <<"f","u","l","l"," "," ","l","l","e","g","a"," ","g","r","a","t","i","s"," ","a"," ","t","u"," ","d","o","m","i","c","i","l","i","o",",">>
P_titleB == <<"C","r","e","c","e","l","a","c"," ","F","i","r","s","t","e","p">>
P_titleC == <<"P","r","o","d","u","c","t","o"," ","n","u","e","v","o"," ","s","e","l","l","a","d","o">>
P_titleD == <<"C","r","e","c","e","l","a","c"," ","0","-","1","2"," ","M"," ","4","0","0"," ","G","R">>

Pieces ==
  { P_space, P_newline, P_zero, P_three, P_unid, P_ades, SKU1, P_unknown,
    P_Envio, P_ENVIO, P_long, P_titleB, P_titleC, P_titleD }

Sides ==
  (1..SmallSide) \cup MidSides
    \cup ((UpscaleTarget - NearTarget)..(UpscaleTarget + NearTarget))

NoRow == <<>>

NoImage == <<0, 0>>

(***************************************************************************)
(* The text pipeline: the OCR engine delivers the text, extract_fields     *)
(* turns it into the row.                                                  *)
(***************************************************************************)
Init ==
  /\ pc = "ocr"
  /\ text = <<>>
  /\ recognized = 0
  /\ row = NoRow
  /\ img = NoImage
  /\ g = NoImage

\* the OCR engine recognizes one more piece of text
Recognize(p) ==
  /\ pc = "ocr"
  /\ recognized < MaxPieces
  /\ text' = text \o p
  /\ recognized' = recognized + 1
  /\ UNCHANGED <<pc, row, img, g>>

\* row = extract_fields(text)
Extract ==
  /\ pc = "ocr"
  /\ row' = extract_fields(text)
  /\ pc' = "done"
  /\ UNCHANGED <<text, recognized, img, g>>

Next ==
  \/ \E p \in Pieces : Recognize(p)
  \/ Extract

Spec == Init /\ [][Next]_vars

(***************************************************************************)
(* The image pipeline: an uploaded image of some size is preprocessed.     *)
(***************************************************************************)
InitPre ==
  /\ pc = "uploaded"
  /\ img \in Sides \X Sides
  /\ g = NoImage
  /\ text = <<>>
  /\ recognized = 0
  /\ row = NoRow

\* pre = preprocess(img)
Preprocess ==
  /\ pc = "uploaded"
  /\ g' = preprocess(img)
  /\ pc' = "preprocessed"
  /\ UNCHANGED <<text, recognized, row, img>>

NextPre == Preprocess

SpecPre == InitPre /\ [][NextPre]_vars

\* the fields of a row
Field(r, k) == r[CHOOSE i \in DOMAIN r : r[i][1] = k][2]

(***************************************************************************)
(* Vocabulary of the properties, stated on the text itself.                *)
(***************************************************************************)
SkuOf(r) == Field(r, "SKU")

TitleOf(r) == Field(r, "Título de la publicación")

UnitsOf(r) == Field(r, "Unidades")

EnvioOf(r) == Field(r, "Envío")

CatalogSkus == {CATALOGO[i].sku : i \in DOMAIN CATALOGO}

\* the tokens of s: its maximal runs of word characters, as <<first, last>>
Tokens(s) ==
  {<<i, SkipWhile(s, i, WordChars) - 1>> :
     i \in {k \in 1..Len(s) : IsWordAt(s, k) /\ ~IsWordAt(s, k - 1)}}

\* the digit 7 followed by exactly 12 digits
IsCode(tok) ==
  /\ Len(tok) = 13
  /\ tok[1] = "7"
  /\ \A k \in 2..13 : tok[k] \in DigitChars

CodeTokens(s) == {t \in Tokens(s) : IsCode(SubSeq(s, t[1], t[2]))}

\* the leftmost code token of s, <<>> when it has none
FirstCodeToken(s) ==
  LET starts == {t[1] : t \in CodeTokens(s)}
  IN IF starts = {} THEN <<>> ELSE SubSeq(s, Min(starts), Min(starts) + 12)

\* the title candidates of s, stripped
Candidates(s) == {strip(c) : c \in Range(findall_title(s, 1))}

\* the title is the marker when s has no candidate, else one of them
TitleDetectedIn(s, title) ==
  IF Candidates(s) = {} THEN title = TituloNoDetectado
  ELSE title \in Candidates(s)

\* the number of keywords of catalog entry i found in the lower-case title tl
KeyHits(tl, i) ==
  Cardinality({k \in DOMAIN CATALOGO[i].keys :
                 Contains(CATALOGO[i].keys[k], tl)})

\* no catalog keyword occurs anywhere in s
NoKeywordIn(s) ==
  \A sl \in {lower(s)} :
    \A i \in DOMAIN CATALOGO : \A k \in DOMAIN CATALOGO[i].keys :
      ~Contains(CATALOGO[i].keys[k], sl)

\* "envío" or "envio", in any case, at index i of s
IsEnvioAt(s, i) ==
  /\ i + 4 <= Len(s)
  /\ lower(SubSeq(s, i, i + 4)) \in {<<"e","n","v","í","o">>, <<"e","n","v","i","o">>}

EnvioStarts(s) == {i \in 1..Len(s) : IsEnvioAt(s, i)}

\* the last index of the line of s that holds index i
LineEnd(s, i) ==
  LET breaks == {j \in i..Len(s) : s[j] = "\n"}
  IN IF breaks = {} THEN Len(s) ELSE Min(breaks) - 1

\* a is b with some characters left out
RECURSIVE IsSubsequence(_, _)
IsSubsequence(a, b) ==
  IF a = <<>> THEN TRUE
  ELSE IF b = <<>> THEN FALSE
  ELSE IF Head(a) = Head(b) THEN IsSubsequence(Tail(a), Tail(b))
  ELSE IsSubsequence(a, Tail(b))

RowKeys == <<"SKU", "Título de la publicación", "Unidades", "Marketplace", "Envío">>

TitleMarkers == {TituloNoDetectado}

\* the code tokens of the text that are not in the catalog
UnknownCodes(s) ==
  {SubSeq(s, t[1], t[2]) : t \in CodeTokens(s)} \ CatalogSkus

NothingToFind(s) ==
  /\ FirstCodeToken(s) = <<>>
  /\ NoKeywordIn(s)
  /\ UNITS_RE_search(s) = <<>>
  /\ EnvioStarts(s) = {}

C4_UnitsAtLeastOne ==
  pc = "done" =>
    /\ UnitsOf(row) # <<"0">>
    /\ UnitsOf(row) =
         (IF UNITS_RE_search(text) # <<>>
            THEN int(UNITS_RE_search(text)) ELSE <<"1">>)

(***************************************************************************)
(* C5                                                                      *)
(***************************************************************************)
\* C5: the fallback returns the entry with the greatest score, the first of
\* them in catalog order on a tie, and no entry when the greatest score is 0.
C5_FirstGreatestScore ==
  (pc = "done" /\ FirstCodeToken(text) = <<>>) =>
    \A t \in {find_title(text)} :
    \A best \in {guess_from_catalog(t)} :
    \A tl \in {lower(t)} :
    \A hits \in {[i \in DOMAIN CATALOGO |-> KeyHits(tl, i)]} :
      IF \A i \in DOMAIN CATALOGO : hits[i] = 0
        THEN best = << <<>>, <<>> >> /\ SkuOf(row) = NoDetectado
        ELSE \E i \in DOMAIN CATALOGO :
               /\ \A j \in DOMAIN CATALOGO : hits[j] <= hits[i]
               /\ \A j \in 1..(i - 1) : hits[j] < hits[i]
               /\ best = <<CATALOGO[i].sku, CATALOGO[i].canonical>>
               /\ SkuOf(row) = CATALOGO[i].sku

\* several entries share the greatest score and the first one is returned
C5_Witness ==
  /\ pc = "done"
  /\ FirstCodeToken(text) = <<>>
  /\ \E tl \in {lower(find_title(text))} :
     \E hits \in {[i \in DOMAIN CATALOGO |-> KeyHits(tl, i)]} :
     \E i, j \in DOMAIN CATALOGO :
       /\ i < j
       /\ hits[i] > 0
       /\ hits[i] = hits[j]
       /\ \A k \in DOMAIN CATALOGO : hits[k] <= hits[i]
       /\ SkuOf(row) = CATALOGO[i].sku

(***************************************************************************)
(* C6                                                                      *)
(***************************************************************************)
\* C6: the shipping is the fallback string exactly when the text has no
\* "envío"; otherwise it begins with the first "envío" of the text, followed
\* by at most 60 characters of the same line, never a line break.
C6_EnvioWithinLine ==
  pc = "done" =>
    LET e == EnvioOf(row)
    IN IF EnvioStarts(text) = {} THEN e = MercadoEnvios
       ELSE LET i0 == Min(EnvioStarts(text))
            IN /\ e # MercadoEnvios
               /\ Len(e) >= 5
               /\ SubSeq(e, 1, 5) = SubSeq(text, i0, i0 + 4)
               /\ Len(e) - 5 <= 60
               /\ "\n" \notin Range(e)
               /\ IsSubsequence(SubSeq(e, 6, Len(e)),
                                SubSeq(text, i0 + 5, LineEnd(text, i0)))

\* an "envío" with more than 60 characters after it on its line
C6_Witness ==
  /\ pc = "done"
  /\ EnvioStarts(text) # {}
  /\ LineEnd(text, Min(EnvioStarts(text))) - (Min(EnvioStarts(text)) + 4) > 62
  /\ Len(EnvioOf(row)) = 65

InFullDigitRun(s, i, j) ==
  /\ \A k \in i..j : s[k] \in DigitChars
  /\ (i = 1 \/ s[i - 1] \notin DigitChars)
  /\ (j = Len(s) \/ s[j + 1] \notin DigitChars)

\* C8: the code is the leftmost token made of a 7 and exactly 12 digits; a
\* match is always a whole digit run; without such a token the regex gives no
\* SKU, and the SKU is what the fallback gives.
C8_FirstCodeToken ==
  pc = "done" =>
    \A c \in {FirstCodeToken(text)} :
      /\ EAN13_RE_search(text) = c
      /\ \A i \in 1..Len(text) :
           EAN13_RE_match_at(text, i) =>
             text[i] = "7" /\ InFullDigitRun(text, i, i + 12)
      /\ c # <<>> => SkuOf(row) = c
      /\ c = <<>> =>
           \/ SkuOf(row) = NoDetectado
           \/ \E t \in {find_title(text)} :
                SkuOf(row) = guess_from_catalog(t)[1]

\* a code token that comes after other digits is the SKU
C8_Witness ==
  /\ pc = "done"
  /\ FirstCodeToken(text) # <<>>
  /\ SkuOf(row) = FirstCodeToken(text)
  /\ text[1] \in DigitChars
  /\ SubSeq(text, 1, 13) # FirstCodeToken(text)

(***************************************************************************)
(* C9                                                                      *)
(***************************************************************************)
\* C9: an image whose longer side is at least 1600 keeps its size; a smaller
\* one never gets a smaller width or height.
C9_NeverDownscales ==
  pc = "preprocessed" =>
    IF Max(img[1], img[2]) >= 1600
      THEN g = img
      ELSE g[1] >= img[1] /\ g[2] >= img[2]

\* a small image is upscaled
C9_Witness ==
  /\ pc = "preprocessed"
  /\ Max(img[1], img[2]) < 1600
  /\ g[1] > img[1]
  /\ g[2] > img[2]

(***************************************************************************)
(* C10                                                                     *)
(***************************************************************************)
\* the words of the canonical title found in the detected title
CanonicalWordsIn(title, canonical) ==
  Cardinality({w \in Range(split(lower(canonical))) : Contains(w, lower(title))})

\* C10: with a regex code, SKU and title are the code and the detected
\* title; without one, an entry chosen by the fallback gives the SKU, and its
\* canonical title replaces the detected one only when fewer than 3 of its
\* words occur in the detected title.
C10_FallbackFrame ==
  pc = "done" =>
    \A c \in {FirstCodeToken(text)} :
    \A t \in {find_title(text)} :
    \A best \in {guess_from_catalog(t)} :
      IF c # <<>>
        THEN SkuOf(row) = c /\ TitleOf(row) = t
        ELSE IF best[1] # <<>>
               THEN /\ SkuOf(row) = best[1]
                    /\ TitleOf(row) =
                         (IF CanonicalWordsIn(t, best[2]) < 3 THEN best[2] ELSE t)
               ELSE SkuOf(row) = NoDetectado /\ TitleOf(row) = t

\* the fallback chose an entry and its canonical title replaced the detected one
C10_Witness ==
  /\ pc = "done"
  /\ FirstCodeToken(text) = <<>>
  /\ find_title(text) = P_titleB
  /\ SkuOf(row) = SKU4
  /\ TitleOf(row) = T4

====
